---------------------------- MODULE Spec2Model ----------------------------
(***************************************************************************)
(* Options_app.py: a one-page dashboard.  A page render reads the sidebar  *)
(* widgets, then runs display_stock_data or display_options_data, each of  *)
(* which queries the market data provider and writes page elements.       *)
(*                                                                         *)
(* Three specifications:                                                   *)
(*   Spec        the page renders (sidebar, dispatch, the two display      *)
(*               functions, the provider's answers as inputs);             *)
(*   FormatSpec  safe_format and format_value applied to sample values,    *)
(*               format_value one loop iteration at a time;                *)
(*   EngineSpec  the indicator functions the specification names that are  *)
(*               not part of Options_app.py.                               *)
(***************************************************************************)
EXTENDS Integers, Sequences, FiniteSets

VARIABLES
  \* ---- a page render (Spec) ----
  pc,              \* position of the script run
  ticker, period, data_type, show_options, option_type,  \* module globals
  stock, info, history,                                  \* locals of display_stock_data
  expiration_dates, expiration_date, options_data, highest_option, \* locals of display_options_data
  page,            \* the elements written to the page in this render, in order
  queries,         \* the provider queries issued in this render, in order
  called,          \* the display functions invoked in this render, in order
  propagated,      \* an exception reached the top-level script
  widgets,         \* what the widgets returned in this render
  responses,       \* what the provider answered in this render, in order
  runs,            \* number of script runs (page renders) started so far
  \* ---- the formatting helpers (FormatSpec) ----
  fArg,            \* the argument of safe_format / format_value
  fPc,             \* position inside format_value
  value, suffix_index,   \* locals of format_value
  divisions,       \* number of executions of line 33 in this call
  fvResult,        \* what format_value returned
  sfResult,        \* what safe_format returned
  \* ---- the indicator engine (EngineSpec) ----
  ePc,             \* position inside the operation
  eArg,            \* the operation and its arguments
  eAcc,            \* the accumulator of a rolling or summing operation
  eResult,         \* what the operation returned
  eDivByZero       \* a division by zero (or a logarithm of a non-positive) was evaluated

renderVars == <<pc, ticker, period, data_type, show_options, option_type,
                stock, info, history, expiration_dates, expiration_date,
                options_data, highest_option, page, queries, called,
                propagated, widgets, responses, runs>>
formatVars == <<fArg, fPc, value, suffix_index, divisions, fvResult, sfResult>>
engineVars == <<ePc, eArg, eAcc, eResult, eDivByZero>>
vars == <<renderVars, formatVars, engineVars>>

-----------------------------------------------------------------------------
(* Values.  A Python value an info field can hold: None, a string, an int  *)
(* or a float.  A number is m * 1000^e exactly (m an integer), so that the *)
(* division by 1000 of format_value is exact and 10^15 fits.               *)

None == [t |-> "NoneType"]
Unbound == [t |-> "unbound"]
Str(s) == [t |-> "str", s |-> s]
PyInt(m, e) == [t |-> "int", m |-> m, e |-> e]
PyFloat(m, e) == [t |-> "float", m |-> m, e |-> e]

\* A sample number is m * 1000^e for e up to MaxExp, a float down to -MaxFrac.
MaxExp == 4
MaxFrac == 1
SampleMantissas == {-1500, -1, 0, 1, 999, 1000, 1005, 999949, 999950, 1234567}

SampleNumbers ==
  {PyInt(m, e) : m \in SampleMantissas, e \in 0..MaxExp}
    \cup {PyFloat(m, e) : m \in SampleMantissas, e \in (-MaxFrac)..MaxExp}
SampleValues == SampleNumbers \cup {None, Str("N/A"), Str("USD")}

RECURSIVE Pow(_, _)
Pow(b, k) == IF k = 0 THEN 1 ELSE b * Pow(b, k - 1)

\* v >= n for a number v = m * 1000^e and 1 <= n <= 1000 (mantissas stay
\* below 10^9, so below n * 1000^3).
GreaterEq(v, n) ==
  IF v.m <= 0 THEN FALSE
  ELSE IF v.e >= 1 THEN TRUE
  ELSE IF v.e = 0 THEN v.m >= n
  ELSE IF v.e >= -2 THEN v.m >= n * Pow(1000, -v.e)
  ELSE FALSE

\* a / d rounded to the nearest integer, ties to even (d > 0).
RoundHalfEven(a, d) ==
  LET q == a \div d
      r == a % d
  IN  IF 2 * r < d THEN q
      ELSE IF 2 * r > d THEN q + 1
      ELSE IF q % 2 = 0 THEN q ELSE q + 1

\* isinstance(value, (int, float))
IsNumber(v) == v.t \in {"int", "float"}

NA == [kind |-> "N/A"]

\* f"{value:.{dp}f}": the decimal with dp places, units * 10^-dp * 1000^e.
Fixed(v, dp) ==
  IF v.e >= 0
  THEN [kind |-> "number", units |-> v.m * Pow(10, dp), e |-> v.e, dp |-> dp]
  ELSE [kind |-> "number", units |-> RoundHalfEven(v.m * Pow(10, dp), Pow(1000, -v.e)),
        e |-> 0, dp |-> dp]

\* safe_format(value, decimal_places=2)
SafeFormatTruthy(v, dp) == IF IsNumber(v) /\ v.m # 0 THEN Fixed(v, dp) ELSE NA
safe_format(v, dp) == IF IsNumber(v) THEN Fixed(v, dp) ELSE NA

suffixes == <<"", "K", "M", "B", "T">>

\* line 32: value >= 1000 and suffix_index < len(suffixes) - 1
LoopGuardNoCap(v, i) == GreaterEq(v, 1000)
LoopGuard(v, i) == GreaterEq(v, 1000) /\ i < Len(suffixes) - 1

\* line 33: value /= 1000 (the result is a float)
Divide1000(v) == PyFloat(v.m, v.e - 1)

\* line 35: f"${value:.1f}{suffixes[suffix_index]}"
Money(v, i) == [kind |-> "money", amount |-> Fixed(v, 1), suffix |-> suffixes[i + 1]]

RECURSIVE ScaleLoop(_, _)
ScaleLoop(v, i) ==
  IF LoopGuard(v, i) THEN ScaleLoop(Divide1000(v), i + 1) ELSE Money(v, i)

\* format_value(value)
format_value(v) == IF IsNumber(v) THEN ScaleLoop(v, 0) ELSE NA

-----------------------------------------------------------------------------
(* FormatSpec: one call of safe_format and of format_value on a sample     *)
(* value, format_value step by step.                                       *)

FormatInit ==
  /\ fArg \in SampleValues
  /\ fPc = "call"
  /\ value = Unbound
  /\ suffix_index = 0
  /\ divisions = 0
  /\ fvResult = Unbound
  /\ sfResult = Unbound

\* lines 22-25
SafeFormatCall ==
  /\ fPc = "call"
  /\ sfResult = Unbound
  /\ sfResult' = safe_format(fArg, 2)
  /\ UNCHANGED <<fArg, fPc, value, suffix_index, divisions, fvResult>>
  /\ UNCHANGED <<renderVars, engineVars>>

\* lines 29-31 and 36
FormatValueEnter ==
  /\ fPc = "call"
  /\ IF IsNumber(fArg)
     THEN /\ value' = fArg
          /\ suffix_index' = 0
          /\ fPc' = "while"
          /\ UNCHANGED fvResult
     ELSE /\ fvResult' = NA
          /\ fPc' = "returned"
          /\ UNCHANGED <<value, suffix_index>>
  /\ UNCHANGED <<fArg, divisions, sfResult>>
  /\ UNCHANGED <<renderVars, engineVars>>

\* lines 32-34, one iteration
FormatValueIterate ==
  /\ fPc = "while"
  /\ LoopGuard(value, suffix_index)
  /\ value' = Divide1000(value)
  /\ suffix_index' = suffix_index + 1
  /\ divisions' = divisions + 1
  /\ UNCHANGED <<fArg, fPc, fvResult, sfResult>>
  /\ UNCHANGED <<renderVars, engineVars>>

\* line 35
FormatValueReturn ==
  /\ fPc = "while"
  /\ ~LoopGuard(value, suffix_index)
  /\ fvResult' = Money(value, suffix_index)
  /\ fPc' = "returned"
  /\ UNCHANGED <<fArg, value, suffix_index, divisions, sfResult>>
  /\ UNCHANGED <<renderVars, engineVars>>

FormatNext ==
  \/ SafeFormatCall
  \/ FormatValueEnter
  \/ FormatValueIterate
  \/ FormatValueReturn

-----------------------------------------------------------------------------
(* The page render.  Every Python value is a tagged record; a str carries  *)
(* its text, ticker's as a sequence of characters so that strip() is       *)
(* computed.                                                               *)

Raised(e) == [t |-> "raised", e |-> e]

\* line 11: what the text_input can return (blank ones, padded ones)
Tickers == {<<>>, <<" ">>, <<" ", " ">>, <<"A">>, <<" ", "A", "B", " ">>}

\* line 12: the options of the period selectbox
Periods == <<"1D", "5D", "1M", "6M", "YTD", "1Y", "5Y">>
\* line 15
DataTypes == <<"Stock Data", "Options Data">>
\* line 19
OptionTypes == <<"Call", "Put">>

Range(s) == {s[i] : i \in DOMAIN s}

\* str.strip()
RECURSIVE lstrip(_)
lstrip(s) == IF s # <<>> /\ Head(s) = " " THEN lstrip(Tail(s)) ELSE s
RECURSIVE rstrip(_)
rstrip(s) ==
  IF s # <<>> /\ s[Len(s)] = " " THEN rstrip(SubSeq(s, 1, Len(s) - 1)) ELSE s
strip(s) == rstrip(lstrip(s))

\* ---- what the provider can answer ----

ProviderErrors == {"ConnectionError"}

InfoKeys == {"country", "sector", "industry", "marketCap", "enterpriseValue",
             "fullTimeEmployees", "currentPrice", "previousClose", "dayHigh",
             "dayLow", "fiftyTwoWeekHigh", "fiftyTwoWeekLow"}
TextKeys == {"country", "sector", "industry"}
InfoSampleValues ==
  {None, Str("N/A"), PyInt(0, 0), PyInt(1234567, 2), PyFloat(1005, -1), PyFloat(999950, 0)}
Dict(d) == [t |-> "dict", d |-> d]
\* stock.info: no field at all, or every field, the numeric ones holding v
Infos ==
  {Dict(<<>>)} \cup
  {Dict([k \in InfoKeys |-> IF k \in TextKeys THEN Str(k) ELSE v]) : v \in InfoSampleValues}

\* dict.get(key, default)
Get(dict, key, default) == IF key \in DOMAIN dict.d THEN dict.d[key] ELSE default

\* stock.history(...): a frame of at most MaxBars bars with a Close column
\* (no bar at all for a ticker the provider has no prices for), or a frame
\* with no column
MaxBars == 2
Closes == {10, 11}
Frame(closes) == [t |-> "DataFrame", columns |-> {"Open", "Close", "Volume"}, Close |-> closes]
NoColumnFrame == [t |-> "DataFrame", columns |-> {}, Close |-> <<>>]
Histories ==
  {Frame(c) : c \in UNION {[1..n -> Closes] : n \in 0..MaxBars}} \cup {NoColumnFrame}

\* stock.options
Tuple(items) == [t |-> "tuple", items |-> items]
ExpirationLists == {Tuple(<<>>), Tuple(<<"2026-01-16">>), Tuple(<<"2026-01-16", "2026-02-20">>)}

\* stock.option_chain(date): calls and puts, each at most MaxContracts rows
MaxContracts == 2
MaxVolume == 1
Contract(side, date, i, vol) ==
  [contractSymbol |-> <<side, date, i>>, strike |-> 100 + i, lastPrice |-> 1,
   volume |-> vol, openInterest |-> 0]
Table(side, date, vols) == [i \in 1..Len(vols) |-> Contract(side, date, i, vols[i])]
VolumeColumns == UNION {[1..n -> 0..MaxVolume] : n \in 0..MaxContracts}
Chains(date) ==
  {[t |-> "Options", calls |-> Table("C", date, vc), puts |-> Table("P", date, vp)] :
     vc \in VolumeColumns, vp \in VolumeColumns}


\* DataFrame.sort_values(by="volume", ascending=False) on a short table:
\* descending, rows of equal volume keeping their order
RECURSIVE InsertByVolume(_, _)
InsertByVolume(sorted, row) ==
  IF sorted = <<>> THEN <<row>>
  ELSE IF Head(sorted).volume >= row.volume
       THEN <<Head(sorted)>> \o InsertByVolume(Tail(sorted), row)
       ELSE <<row>> \o sorted
RECURSIVE SortFrom(_, _)
SortFrom(table, sorted) ==
  IF table = <<>> THEN sorted
  ELSE SortFrom(Tail(table), InsertByVolume(sorted, Head(table)))
Unsorted(table) == table
sort_values(table) == SortFrom(table, <<>>)

\* line 117: options_chain.calls if option_type == "Call" else options_chain.puts
SelectSide(chain, otype) == IF otype = Str("Call") THEN chain.calls ELSE chain.puts

\* lines 45-58: the history query of a period; None when no branch matches
HistoryArgsSwapped(p) ==
  CASE p = Str("1D") -> [period |-> "1d", interval |-> "1h"]
    [] p = Str("5D") -> [period |-> "5d", interval |-> "1d"]
    [] p = Str("1M") -> [period |-> "1mo", interval |-> "1d"]
    [] p = Str("6M") -> [period |-> "6mo", interval |-> "1wk"]
    [] p = Str("YTD") -> [period |-> "ytd", interval |-> "1mo"]
    [] p = Str("1Y") -> [period |-> "1y", interval |-> "3mo"]
    [] p = Str("5Y") -> [period |-> "5y", interval |-> "1mo"]
    [] OTHER -> None
HistoryArgs(p) ==
  CASE p = Str("1D") -> [period |-> "1d", interval |-> "1h"]
    [] p = Str("5D") -> [period |-> "5d", interval |-> "1d"]
    [] p = Str("1M") -> [period |-> "1mo", interval |-> "1d"]
    [] p = Str("6M") -> [period |-> "6mo", interval |-> "1wk"]
    [] p = Str("YTD") -> [period |-> "ytd", interval |-> "1mo"]
    [] p = Str("1Y") -> [period |-> "1y", interval |-> "1mo"]
    [] p = Str("5Y") -> [period |-> "5y", interval |-> "3mo"]
    [] OTHER -> None

\* ---- page elements ----
Error(prefix, e) == [el |-> "error", text |-> <<prefix, e>>]
LineChart(closes) == [el |-> "line_chart", data |-> closes]
\* lines 66-83
InfoTable(i) ==
  [el |-> "dataframe", column |-> 1,
   rows |-> << <<"Country", Get(i, "country", Str("N/A"))>>,
               <<"Sector", Get(i, "sector", Str("N/A"))>>,
               <<"Industry", Get(i, "industry", Str("N/A"))>>,
               <<"Market Cap", format_value(Get(i, "marketCap", Str("N/A")))>>,
               <<"Enterprise Value", format_value(Get(i, "enterpriseValue", Str("N/A")))>>,
               <<"Employees", Get(i, "fullTimeEmployees", Str("N/A"))>> >>]
\* lines 86-103
PriceTable(i) ==
  [el |-> "dataframe", column |-> 2,
   rows |-> << <<"Current Price", <<"$", safe_format(Get(i, "currentPrice", None), 2)>> >>,
               <<"Previous Close", <<"$", safe_format(Get(i, "previousClose", None), 2)>> >>,
               <<"Day High", <<"$", safe_format(Get(i, "dayHigh", None), 2)>> >>,
               <<"Day Low", <<"$", safe_format(Get(i, "dayLow", None), 2)>> >>,
               <<"52 Week High", <<"$", safe_format(Get(i, "fiftyTwoWeekHigh", None), 2)>> >>,
               <<"52 Week Low", <<"$", safe_format(Get(i, "fiftyTwoWeekLow", None), 2)>> >> >>]
\* line 113
SelectBox(options) == [el |-> "selectbox", options |-> options]
\* line 120
Heading(otype, date) == [el |-> "write", text |-> <<otype.s, "s for ", date.s>>]
\* line 121: options_data[['contractSymbol', 'strike', 'lastPrice', 'volume']]
Columns(table) ==
  [i \in 1..Len(table) |->
     [contractSymbol |-> table[i].contractSymbol, strike |-> table[i].strike,
      lastPrice |-> table[i].lastPrice, volume |-> table[i].volume]]
OptionsTable(table) == [el |-> "dataframe", column |-> 0, rows |-> Columns(table)]
\* line 125
Highest(otype, row) ==
  [el |-> "write",
   text |-> <<"Highest Volume ", otype.s, " Option", row.contractSymbol, row.volume>>]

StockPrefix == "An error occurred: "
OptionsPrefix == "An error occurred while fetching options data: "

-----------------------------------------------------------------------------
(* Spec: the script, run once per page render.                             *)

NoWidgets ==
  [ticker |-> Unbound, period |-> Unbound, data_type |-> Unbound,
   option_type |-> Unbound, expiration_date |-> Unbound]

RenderInit ==
  /\ pc = "sidebar"
  /\ ticker = Unbound /\ period = Unbound /\ data_type = Unbound
  /\ show_options = Unbound /\ option_type = Unbound
  /\ stock = Unbound /\ info = Unbound /\ history = Unbound
  /\ expiration_dates = Unbound /\ expiration_date = Unbound
  /\ options_data = Unbound /\ highest_option = Unbound
  /\ page = <<>> /\ queries = <<>> /\ called = <<>>
  /\ propagated = FALSE
  /\ widgets = NoWidgets
  /\ responses = <<>>
  /\ runs = 1

globals == <<ticker, period, data_type, show_options, option_type>>
stockLocals == <<stock, info, history>>
optionsLocals == <<expiration_dates, expiration_date, options_data, highest_option>>
locals == <<stockLocals, optionsLocals>>

\* the frame of a display function is dropped when it returns
ReleaseLocals ==
  /\ stock' = Unbound /\ info' = Unbound /\ history' = Unbound
  /\ expiration_dates' = Unbound /\ expiration_date' = Unbound
  /\ options_data' = Unbound /\ highest_option' = Unbound

\* the steps the try statements cover: lines 40-103 and 110-125
StockTry ==
  {"stock_ticker", "stock_info", "stock_history", "stock_chart",
   "stock_info_table", "stock_price_table"}
OptionsTry ==
  {"options_ticker", "options_expirations", "options_select", "options_chain",
   "options_table", "options_highest"}

\* an exception e raised at the current step: lines 105-106 and 127-128 when
\* the step is inside the try, otherwise the exception leaves the function
Throw(e) ==
  /\ IF pc \in StockTry
     THEN page' = Append(page, Error(StockPrefix, e)) /\ UNCHANGED propagated
     ELSE IF pc \in OptionsTry
     THEN page' = Append(page, Error(OptionsPrefix, e)) /\ UNCHANGED propagated
     ELSE propagated' = TRUE /\ UNCHANGED page
  /\ pc' = "end"
  /\ ReleaseLocals

\* lines 9-19: every global is assigned from its widget
SidebarKeepTicker(t, p, d, o) ==
  /\ ticker' = IF strip(t) = <<>> /\ ticker # Unbound THEN ticker ELSE Str(t)
  /\ period' = Str(p)
  /\ data_type' = Str(d)
  /\ show_options' = (d = "Options Data")
  /\ option_type' = IF d = "Options Data" THEN Str(o) ELSE None
SidebarAssign(t, p, d, o) ==
  /\ ticker' = Str(t)
  /\ period' = Str(p)
  /\ data_type' = Str(d)
  /\ show_options' = (d = "Options Data")
  /\ option_type' = IF d = "Options Data" THEN Str(o) ELSE None

Sidebar ==
  /\ pc = "sidebar"
  /\ \E t \in Tickers, p \in Range(Periods), d \in Range(DataTypes), o \in Range(OptionTypes) :
       /\ SidebarAssign(t, p, d, o)
       /\ widgets' = [ticker |-> Str(t), period |-> Str(p), data_type |-> Str(d),
                      option_type |-> IF d = "Options Data" THEN Str(o) ELSE None,
                      expiration_date |-> Unbound]
  /\ pc' = "dispatch"
  /\ UNCHANGED <<locals, page, queries, called, propagated, responses>>
  /\ UNCHANGED <<runs, formatVars, engineVars>>

\* lines 131-135: the function to call, "" for none
TargetBoth ==
  IF data_type = Str("Stock Data") THEN <<"display_stock_data", "display_options_data">>
  ELSE IF data_type = Str("Options Data") /\ show_options = TRUE
  THEN <<"display_options_data">>
  ELSE <<>>
Target ==
  IF strip(ticker.s) # <<>>
  THEN IF data_type = Str("Stock Data") THEN <<"display_stock_data">>
       ELSE IF data_type = Str("Options Data") /\ show_options = TRUE
       THEN <<"display_options_data">>
       ELSE <<>>
  ELSE <<>>

Dispatch ==
  /\ pc = "dispatch"
  /\ called' = called \o Target
  /\ pc' = IF Target = <<>> THEN "end"
           ELSE IF Head(Target) = "display_stock_data" THEN "stock_ticker"
           ELSE "options_ticker"
  /\ UNCHANGED <<globals, locals, page, queries, propagated, widgets, responses>>
  /\ UNCHANGED <<runs, formatVars, engineVars>>

\* ---- display_stock_data(ticker, period) ----

\* line 41
StockTicker ==
  /\ pc = "stock_ticker"
  /\ \/ /\ stock' = [t |-> "Ticker", symbol |-> ticker]
        /\ responses' = Append(responses, stock')
        /\ pc' = "stock_info"
        /\ UNCHANGED <<info, history, optionsLocals, page, propagated>>
     \/ \E e \in ProviderErrors :
          /\ responses' = Append(responses, Raised(e))
          /\ Throw(e)
  /\ UNCHANGED <<globals, queries, called, widgets>>
  /\ UNCHANGED <<runs, formatVars, engineVars>>

\* line 42
StockInfo ==
  /\ pc = "stock_info"
  /\ queries' = Append(queries, [op |-> "info", ticker |-> stock.symbol])
  /\ \/ \E reply \in Infos :
          /\ info' = reply
          /\ responses' = Append(responses, reply)
          /\ pc' = "stock_history"
          /\ UNCHANGED <<stock, history, optionsLocals, page, propagated>>
     \/ \E e \in ProviderErrors :
          /\ responses' = Append(responses, Raised(e))
          /\ Throw(e)
  /\ UNCHANGED <<globals, called, widgets>>
  /\ UNCHANGED <<runs, formatVars, engineVars>>

\* lines 45-58
StockHistory ==
  /\ pc = "stock_history"
  /\ LET args == HistoryArgs(period) IN
     IF args = None
     THEN /\ pc' = "stock_chart"
          /\ UNCHANGED <<locals, page, queries, propagated, responses>>
     ELSE /\ queries' = Append(queries, [op |-> "history", ticker |-> stock.symbol,
                                         period |-> args.period, interval |-> args.interval])
          /\ \/ \E reply \in Histories :
                  /\ history' = reply
                  /\ responses' = Append(responses, reply)
                  /\ pc' = "stock_chart"
                  /\ UNCHANGED <<stock, info, optionsLocals, page, propagated>>
             \/ \E e \in ProviderErrors :
                  /\ responses' = Append(responses, Raised(e))
                  /\ Throw(e)
  /\ UNCHANGED <<globals, called, widgets>>
  /\ UNCHANGED <<runs, formatVars, engineVars>>

\* line 60
StockChart ==
  /\ pc = "stock_chart"
  /\ IF history = Unbound THEN Throw("UnboundLocalError")
     ELSE IF "Close" \notin history.columns THEN Throw("KeyError")
     ELSE /\ page' = Append(page, LineChart(history.Close))
          /\ pc' = "stock_info_table"
          /\ UNCHANGED <<locals, propagated>>
  /\ UNCHANGED <<globals, queries, called, widgets, responses>>
  /\ UNCHANGED <<runs, formatVars, engineVars>>

\* lines 63-83
StockInfoTable ==
  /\ pc = "stock_info_table"
  /\ page' = Append(page, InfoTable(info))
  /\ pc' = "stock_price_table"
  /\ UNCHANGED <<globals, locals, queries, called, propagated, widgets, responses>>
  /\ UNCHANGED <<runs, formatVars, engineVars>>

\* lines 86-103, and the return
StockPriceTable ==
  /\ pc = "stock_price_table"
  /\ page' = Append(page, PriceTable(info))
  /\ pc' = "end"
  /\ ReleaseLocals
  /\ UNCHANGED <<globals, queries, called, propagated, widgets, responses>>
  /\ UNCHANGED <<runs, formatVars, engineVars>>

\* ---- display_options_data(ticker, option_type) ----

\* line 111
OptionsTicker ==
  /\ pc = "options_ticker"
  /\ \/ /\ stock' = [t |-> "Ticker", symbol |-> ticker]
        /\ responses' = Append(responses, stock')
        /\ pc' = "options_expirations"
        /\ UNCHANGED <<info, history, optionsLocals, page, propagated>>
     \/ \E e \in ProviderErrors :
          /\ responses' = Append(responses, Raised(e))
          /\ Throw(e)
  /\ UNCHANGED <<globals, queries, called, widgets>>
  /\ UNCHANGED <<runs, formatVars, engineVars>>

\* line 112
OptionsExpirations ==
  /\ pc = "options_expirations"
  /\ queries' = Append(queries, [op |-> "options", ticker |-> stock.symbol])
  /\ \/ \E reply \in ExpirationLists :
          /\ expiration_dates' = reply
          /\ responses' = Append(responses, reply)
          /\ pc' = "options_select"
          /\ UNCHANGED <<stockLocals, expiration_date, options_data, highest_option,
                         page, propagated>>
     \/ \E e \in ProviderErrors :
          /\ responses' = Append(responses, Raised(e))
          /\ Throw(e)
  /\ UNCHANGED <<globals, called, widgets>>
  /\ UNCHANGED <<runs, formatVars, engineVars>>

\* what st.selectbox can return: one of its options, None when it has none
Selections(options) ==
  IF options = <<>> THEN {None} ELSE {Str(options[i]) : i \in DOMAIN options}

\* line 113
OptionsSelect ==
  /\ pc = "options_select"
  /\ \E selected \in Selections(expiration_dates.items) :
       /\ expiration_date' = selected
       /\ widgets' = [widgets EXCEPT !.expiration_date = selected]
  /\ page' = Append(page, SelectBox(expiration_dates.items))
  /\ pc' = "options_chain"
  /\ UNCHANGED <<globals, stockLocals, expiration_dates, options_data, highest_option,
                 queries, called, propagated, responses>>
  /\ UNCHANGED <<runs, formatVars, engineVars>>

\* `if expiration_date:`
Truthy(v) == v # None /\ v.s # ""

\* lines 115-118
OptionsChain ==
  /\ pc = "options_chain"
  /\ IF Truthy(expiration_date)
     THEN /\ queries' = Append(queries, [op |-> "option_chain", ticker |-> stock.symbol,
                                         date |-> expiration_date.s])
          /\ \/ \E reply \in Chains(expiration_date.s) :
                  /\ options_data' = sort_values(SelectSide(reply, option_type))
                  /\ responses' = Append(responses, reply)
                  /\ pc' = "options_table"
                  /\ UNCHANGED <<stockLocals, expiration_dates, expiration_date,
                                 highest_option, page, propagated>>
             \/ \E e \in ProviderErrors :
                  /\ responses' = Append(responses, Raised(e))
                  /\ Throw(e)
     ELSE /\ pc' = "end"
          /\ ReleaseLocals
          /\ UNCHANGED <<page, queries, propagated, responses>>
  /\ UNCHANGED <<globals, called, widgets>>
  /\ UNCHANGED <<runs, formatVars, engineVars>>

\* lines 120-121
OptionsTableStep ==
  /\ pc = "options_table"
  /\ page' = page \o <<Heading(option_type, expiration_date), OptionsTable(options_data)>>
  /\ pc' = "options_highest"
  /\ UNCHANGED <<globals, locals, queries, called, propagated, widgets, responses>>
  /\ UNCHANGED <<runs, formatVars, engineVars>>

\* line 123: `not options_data.empty`
ReportHighest(table) == table # <<>>

\* lines 123-125, and the return
OptionsHighest ==
  /\ pc = "options_highest"
  /\ IF ReportHighest(options_data)
     THEN page' = Append(page, Highest(option_type, options_data[1]))
     ELSE UNCHANGED page
  /\ pc' = "end"
  /\ ReleaseLocals
  /\ UNCHANGED <<globals, queries, called, propagated, widgets, responses>>
  /\ UNCHANGED <<runs, formatVars, engineVars>>

\* the next page render: the script runs again from its first line, on an
\* empty page; nothing in the script clears its globals
MaxRuns == 2
Rerun ==
  /\ pc = "end"
  /\ runs < MaxRuns
  /\ runs' = runs + 1
  /\ pc' = "sidebar"
  /\ page' = <<>> /\ queries' = <<>> /\ called' = <<>>
  /\ propagated' = FALSE
  /\ widgets' = NoWidgets
  /\ responses' = <<>>
  /\ UNCHANGED <<globals, locals>>
  /\ UNCHANGED <<formatVars, engineVars>>

Next ==
  \/ Sidebar
  \/ Dispatch
  \/ StockTicker
  \/ StockInfo
  \/ StockHistory
  \/ StockChart
  \/ StockInfoTable
  \/ StockPriceTable
  \/ OptionsTicker
  \/ OptionsExpirations
  \/ OptionsSelect
  \/ OptionsChain
  \/ OptionsTableStep
  \/ OptionsHighest
  \/ Rerun

FormatIdle ==
  /\ fArg = None /\ fPc = "idle" /\ value = Unbound /\ suffix_index = 0
  /\ divisions = 0 /\ fvResult = Unbound /\ sfResult = Unbound
EngineIdle ==
  /\ ePc = "idle" /\ eArg = None /\ eAcc = None /\ eResult = Unbound
  /\ eDivByZero = FALSE

Init == RenderInit /\ FormatIdle /\ EngineIdle
Spec == Init /\ [][Next]_vars

FormatSpecInit == FormatInit /\ RenderInit /\ EngineIdle
FormatSpec == FormatSpecInit /\ [][FormatNext]_vars

-----------------------------------------------------------------------------
(* Properties of the page render (Spec).                                   *)

Elements(kind) == {i \in DOMAIN page : page[i].el = kind}
Errors == Elements("error")
HistoryQueries == {i \in DOMAIN queries : queries[i].op = "history"}
RaisedReplies == {i \in DOMAIN responses : responses[i].t = "raised"}
EmptyHistoryReplies ==
  {i \in DOMAIN responses :
     responses[i].t = "DataFrame" /\ "Close" \in responses[i].columns
       /\ responses[i].Close = <<>>}
IsHighest(el) == el.el = "write" /\ el.text[1] = "Highest Volume "

\* Every exception raised inside a display function is reported by exactly
\* one error element, the function returns, and nothing reaches the script.
ExceptionsAreReported ==
  /\ ~propagated
  /\ Cardinality(Errors) <= 1
  /\ pc = "end" /\ RaisedReplies # {} => Cardinality(Errors) = 1
  /\ Errors # {} => pc = "end" /\ page[Len(page)].el = "error"

\* C1: a failure of the market data provider during a render (an exception
\* of a provider call or rendering step, or an empty history) is always
\* reported: the display function returns after exactly one error message
\* and no exception reaches the top-level script.
C1_FailureReported ==
  /\ ExceptionsAreReported
  /\ pc = "end" /\ EmptyHistoryReplies # {} => Cardinality(Errors) = 1

\* C10: a render invokes at most one display function: none for a blank
\* ticker, display_stock_data exactly for "Stock Data", display_options_data
\* exactly for "Options Data"; option_type is None exactly when the data
\* type is not "Options Data", so display_options_data never gets None.
C10_Dispatch ==
  /\ Len(called) <= 1
  /\ pc # "sidebar" =>
       /\ option_type = None <=> widgets.data_type # Str("Options Data")
       /\ option_type = widgets.option_type
  /\ pc \notin {"sidebar", "dispatch"} =>
       /\ strip(widgets.ticker.s) = <<>> => called = <<>>
       /\ strip(widgets.ticker.s) # <<>> =>
            /\ called = <<"display_stock_data">> <=> widgets.data_type = Str("Stock Data")
            /\ called = <<"display_options_data">> <=> widgets.data_type = Str("Options Data")
  /\ called = <<"display_options_data">> => option_type \in {Str("Call"), Str("Put")}

C10_Witness ==
  /\ pc = "end"
  /\ called = <<"display_options_data">>
  /\ option_type = Str("Put")
  /\ Len(widgets.ticker.s) > Len(strip(widgets.ticker.s))

\* the (period, interval) pair of each selectable period
PeriodPairs ==
  [p \in Range(Periods) |->
     CASE p = "1D" -> <<"1d", "1h">>
       [] p = "5D" -> <<"5d", "1d">>
       [] p = "1M" -> <<"1mo", "1d">>
       [] p = "6M" -> <<"6mo", "1wk">>
       [] p = "YTD" -> <<"ytd", "1mo">>
       [] p = "1Y" -> <<"1y", "1mo">>
       [] p = "5Y" -> <<"5y", "3mo">>]

\* C7: in display_stock_data each of the seven periods issues one history
\* query, with the fixed (period, interval) pair of the period, after the
\* company info has been fetched; the history is assigned before the chart
\* is drawn.
C7_PeriodResolution ==
  called = <<"display_stock_data">> =>
    /\ Cardinality(HistoryQueries) <= 1
    /\ \A i \in HistoryQueries :
         /\ <<queries[i].period, queries[i].interval>> = PeriodPairs[widgets.period.s]
         /\ i = 2 /\ queries[1].op = "info"
         /\ Len(responses) >= 2 /\ responses[2].t = "dict"
    /\ pc \in {"stock_chart", "stock_info_table", "stock_price_table"} =>
         /\ Cardinality(HistoryQueries) = 1
         /\ history # Unbound
    /\ Elements("line_chart") # {} =>
         /\ Cardinality(HistoryQueries) = 1
         /\ Len(responses) = 3 /\ responses[3].t = "DataFrame"
         /\ \A i \in Elements("line_chart") : page[i].data = responses[3].Close

C7_Witness ==
  /\ pc = "end"
  /\ widgets.period = Str("5Y")
  /\ Elements("line_chart") # {}
  /\ \E i \in HistoryQueries : queries[i].interval = "3mo"

\* C8: the highest-volume option reported by display_options_data is a
\* contract of the selected side and expiration whose volume is at least that
\* of every row of the displayed table; it is reported only for a non-empty
\* table; with no expiration date selected neither a table nor an error (nor
\* any text) is displayed and no chain is queried.
C8_HighestVolume ==
  /\ \A i \in DOMAIN page : IsHighest(page[i]) =>
       LET symbol == page[i].text[4]
           volume == page[i].text[5]
           table == page[i - 1]
       IN  /\ i > 1 /\ table.el = "dataframe" /\ table.rows # <<>>
           /\ symbol[1] = (IF widgets.option_type = Str("Call") THEN "C" ELSE "P")
           /\ symbol[2] = widgets.expiration_date.s
           /\ \E r \in DOMAIN table.rows :
                table.rows[r].contractSymbol = symbol /\ table.rows[r].volume = volume
           /\ \A r \in DOMAIN table.rows : volume >= table.rows[r].volume
  /\ pc = "end" /\ widgets.expiration_date = None =>
       /\ \A i \in DOMAIN page : page[i].el = "selectbox"
       /\ \A i \in DOMAIN queries : queries[i].op # "option_chain"

C8_Witness ==
  /\ pc = "end"
  /\ widgets.option_type = Str("Put")
  /\ \E i \in DOMAIN page :
       /\ IsHighest(page[i])
       /\ page[i].text[4][3] = 2
       /\ Len(page[i - 1].rows) = 2
       /\ page[i - 1].rows[2].volume < page[i].text[5]


\* What a render shows as a function of what its widgets returned (w) and
\* of the provider's answers in order (r), and of nothing else.
Output(c, q, p) == [called |-> c, queries |-> q, page |-> p]

StockOutput(w, r) ==
  LET c == <<"display_stock_data">>
      a == HistoryArgs(w.period)
      qi == [op |-> "info", ticker |-> w.ticker]
      qh == [op |-> "history", ticker |-> w.ticker,
             period |-> a.period, interval |-> a.interval]
      failed(e) == <<Error(StockPrefix, e)>>
  IN  IF r[1].t = "raised" THEN Output(c, <<>>, failed(r[1].e))
      ELSE IF r[2].t = "raised" THEN Output(c, <<qi>>, failed(r[2].e))
      ELSE IF a = None THEN Output(c, <<qi>>, failed("UnboundLocalError"))
      ELSE IF r[3].t = "raised" THEN Output(c, <<qi, qh>>, failed(r[3].e))
      ELSE IF "Close" \notin r[3].columns THEN Output(c, <<qi, qh>>, failed("KeyError"))
      ELSE Output(c, <<qi, qh>>,
                  <<LineChart(r[3].Close), InfoTable(r[2]), PriceTable(r[2])>>)

OptionsOutput(w, r) ==
  LET c == <<"display_options_data">>
      qo == [op |-> "options", ticker |-> w.ticker]
      failed(e) == Error(OptionsPrefix, e)
  IN  IF r[1].t = "raised" THEN Output(c, <<>>, <<failed(r[1].e)>>)
      ELSE IF r[2].t = "raised" THEN Output(c, <<qo>>, <<failed(r[2].e)>>)
      ELSE IF ~Truthy(w.expiration_date)
      THEN Output(c, <<qo>>, <<SelectBox(r[2].items)>>)
      ELSE LET qc == [op |-> "option_chain", ticker |-> w.ticker,
                      date |-> w.expiration_date.s]
           IN  IF r[3].t = "raised"
               THEN Output(c, <<qo, qc>>, <<SelectBox(r[2].items), failed(r[3].e)>>)
               ELSE LET table == sort_values(SelectSide(r[3], w.option_type))
                    IN  Output(c, <<qo, qc>>,
                               <<SelectBox(r[2].items),
                                 Heading(w.option_type, w.expiration_date),
                                 OptionsTable(table)>>
                               \o IF table = <<>> THEN <<>>
                                  ELSE <<Highest(w.option_type, table[1])>>)

RenderOutput(w, r) ==
  IF strip(w.ticker.s) = <<>> THEN Output(<<>>, <<>>, <<>>)
  ELSE IF w.data_type = Str("Stock Data") THEN StockOutput(w, r)
  ELSE OptionsOutput(w, r)

\* C5: no state is retained between renders: whatever renders came before,
\* the display function run, the provider queries issued and the page shown
\* by a render are a function of that render's widget selections and of the
\* provider's responses alone.
C5_NoRetainedState ==
  pc = "end" => Output(called, queries, page) = RenderOutput(widgets, responses)

\* a render that is not the first has shown a highest-volume option
C5_Witness ==
  /\ pc = "end"
  /\ runs > 1
  /\ called = <<"display_options_data">>
  /\ \E i \in DOMAIN page : IsHighest(page[i])

-----------------------------------------------------------------------------
(* Properties of the formatting helpers (FormatSpec).                      *)

Numeric(v) == v.t = "int" \/ v.t = "float"

\* shown is the decimal of v with dp places: exact for a whole number,
\* within half a unit of the last place otherwise
Shows(shown, v, dp) ==
  /\ shown.kind = "number" /\ shown.dp = dp
  /\ IF v.e >= 0
     THEN shown.e = v.e /\ shown.units = v.m * Pow(10, dp)
     ELSE LET d == Pow(1000, -v.e)
              err == shown.units * d - v.m * Pow(10, dp)
          IN  shown.e = 0 /\ 2 * err <= d /\ 2 * err >= -d

\* C6: safe_format and format_value return "N/A" for every input that is
\* not an int or a float (None, a string, 'N/A') and a formatted number for
\* every int or float, 0 included: 0 is shown as the number 0, never as N/A.
C6_AbsenceIsNA ==
  /\ sfResult # Unbound =>
       IF Numeric(fArg) THEN Shows(sfResult, fArg, 2) ELSE sfResult = NA
  /\ fPc = "returned" =>
       IF Numeric(fArg)
       THEN /\ fvResult.kind = "money"
            /\ Shows(fvResult.amount, value, 1)
            /\ value.m = fArg.m
       ELSE fvResult = NA
  /\ sfResult # Unbound /\ Numeric(fArg) /\ fArg.m = 0 =>
       sfResult.units = 0 /\ sfResult # NA

C6_Witness ==
  /\ fArg = PyInt(0, 0)
  /\ sfResult = [kind |-> "number", units |-> 0, e |-> 0, dp |-> 2]
  /\ fPc = "returned"
  /\ fvResult.kind = "money" /\ fvResult.amount.units = 0 /\ fvResult.suffix = ""

\* C9: format_value ends after at most 4 divisions by 1000; the suffix is the
\* k-th of "", K, M, B, T for k the number of divisions; for a non-negative
\* value the scaled value is below 1000 unless k = 4 and at least 1 when
\* k > 0; a value below 1000, a negative one included, is not scaled.
C9_Scaling ==
  /\ divisions <= 4
  /\ fPc \in {"while", "returned"} /\ Numeric(fArg) =>
       /\ suffix_index = divisions
       /\ value.m = fArg.m /\ value.e = fArg.e - divisions
  /\ fPc = "while" => ENABLED (FormatValueIterate \/ FormatValueReturn)
  /\ fPc = "returned" /\ Numeric(fArg) =>
       /\ fvResult.suffix = suffixes[divisions + 1]
       /\ fArg.m >= 0 =>
            /\ divisions < 4 => ~GreaterEq(value, 1000)
            /\ divisions > 0 => GreaterEq(value, 1)
       /\ ~GreaterEq(fArg, 1000) => divisions = 0 /\ fvResult.suffix = ""

C9_Witness ==
  /\ fPc = "returned"
  /\ divisions = 4
  /\ fvResult.suffix = "T"
  /\ GreaterEq(value, 1000)

-----------------------------------------------------------------------------
(* EngineSpec: simple_moving_average, put_call_ratio and                   *)
(* black_scholes_greeks as the specification describes them (sections 3,   *)
(* 4.1 and 7); Options_app.py holds none of them.                          *)

NoValue == [t |-> "no value"]
Undefined == [t |-> "undefined"]
\* the number num / den
Value(num, den) == [t |-> "value", num |-> num, den |-> den]

RECURSIVE GCD(_, _)
GCD(a, b) == IF b = 0 THEN a ELSE GCD(b, a % b)
Ratio(num, den) == LET g == GCD(num, den) IN Value(num \div g, den \div g)

RECURSIVE Sum(_)
Sum(s) == IF s = <<>> THEN 0 ELSE Head(s) + Sum(Tail(s))

\* ---- the arguments ----
MaxSeries == 3
MaxWindow == 4
ClosePrices == {0, 1, 5}
SmaArgs ==
  {[op |-> "simple_moving_average", series |-> c, window |-> w] :
     c \in UNION {[1..n -> ClosePrices] : n \in 0..MaxSeries}, w \in 1..MaxWindow}

MaxChains == 1
MaxLegs == 1
LegVolumes == {0, 50, 100}
LegColumns == UNION {[1..n -> LegVolumes] : n \in 0..MaxLegs}
EngineChains == {[calls |-> c, puts |-> q] : c \in LegColumns, q \in LegColumns}
PcrArgs ==
  {[op |-> "put_call_ratio", chain_set |-> cs] :
     cs \in UNION {[1..n -> EngineChains] : n \in 0..MaxChains}}

\* time in years is a perfect square so that its square root is exact
BsgArgs ==
  {[op |-> "black_scholes_greeks", spot |-> sp, strike |-> k, time_to_expiry_years |-> ty,
    implied_vol |-> iv, option_side |-> side] :
     sp \in {-100, 0, 100}, k \in {-100, 0, 100, 200}, ty \in {-1, 0, 1, 4},
     iv \in {-2, 0, 2}, side \in {"Call", "Put"}}

EngineInit ==
  /\ eArg \in SmaArgs \cup PcrArgs \cup BsgArgs
  /\ ePc = "call"
  /\ eAcc = None
  /\ eResult = Unbound
  /\ eDivByZero = FALSE

\* ---- simple_moving_average(series, window), a sliding accumulator ----

\* the entry of a position holding `bars` bars up to and including it, of
\* which the trailing window sums to `sum`
SmaEntryPartial(bars, window, sum) == IF bars >= 1 THEN Value(sum, bars) ELSE NoValue
SmaEntry(bars, window, sum) == IF bars >= window THEN Value(sum, window) ELSE NoValue

SmaEnter ==
  /\ ePc = "call" /\ eArg.op = "simple_moving_average"
  /\ eAcc' = [i |-> 1, sum |-> 0]
  /\ eResult' = <<>>
  /\ ePc' = "rolling"
  /\ UNCHANGED <<eArg, eDivByZero, renderVars, formatVars>>

SmaStep ==
  /\ ePc = "rolling" /\ eArg.op = "simple_moving_average"
  /\ eAcc.i <= Len(eArg.series)
  /\ LET i == eAcc.i
         leaving == IF i > eArg.window THEN eArg.series[i - eArg.window] ELSE 0
         sum == eAcc.sum + eArg.series[i] - leaving
     IN  /\ eAcc' = [i |-> i + 1, sum |-> sum]
         /\ eResult' = Append(eResult, SmaEntry(i, eArg.window, sum))
  /\ UNCHANGED <<ePc, eArg, eDivByZero, renderVars, formatVars>>

SmaReturn ==
  /\ ePc = "rolling" /\ eArg.op = "simple_moving_average"
  /\ eAcc.i > Len(eArg.series)
  /\ ePc' = "returned"
  /\ UNCHANGED <<eArg, eAcc, eResult, eDivByZero, renderVars, formatVars>>

\* ---- put_call_ratio(chain_set) ----

PcrEnter ==
  /\ ePc = "call" /\ eArg.op = "put_call_ratio"
  /\ eAcc' = [i |-> 1, calls |-> 0, puts |-> 0]
  /\ ePc' = "summing"
  /\ UNCHANGED <<eArg, eResult, eDivByZero, renderVars, formatVars>>

PcrAccumulate ==
  /\ ePc = "summing" /\ eArg.op = "put_call_ratio"
  /\ eAcc.i <= Len(eArg.chain_set)
  /\ eAcc' = [i |-> eAcc.i + 1,
              calls |-> eAcc.calls + Sum(eArg.chain_set[eAcc.i].calls),
              puts |-> eAcc.puts + Sum(eArg.chain_set[eAcc.i].puts)]
  /\ UNCHANGED <<ePc, eArg, eResult, eDivByZero, renderVars, formatVars>>

\* "no value" when the total call volume is 0
PcrResultZero(calls, puts) == IF calls = 0 THEN Value(0, 1) ELSE Ratio(puts, calls)
PcrResult(calls, puts) == IF calls = 0 THEN NoValue ELSE Ratio(puts, calls)

PcrDivide ==
  /\ ePc = "summing" /\ eArg.op = "put_call_ratio"
  /\ eAcc.i > Len(eArg.chain_set)
  /\ eResult' = PcrResult(eAcc.calls, eAcc.puts)
  /\ eDivByZero' = (eResult'.t = "value" /\ eAcc.calls = 0)
  /\ ePc' = "returned"
  /\ UNCHANGED <<eArg, eAcc, renderVars, formatVars>>

\* ---- black_scholes_greeks(spot, strike, time, rate, vol, side) ----

\* S > 0, K > 0, T > 0, sigma > 0
PreconditionsLax(a) ==
  a.spot > 0 /\ a.strike > 0 /\ a.time_to_expiry_years >= 0 /\ a.implied_vol >= 0
Preconditions(a) ==
  a.spot > 0 /\ a.strike > 0 /\ a.time_to_expiry_years > 0 /\ a.implied_vol > 0

Sqrt(n) == CHOOSE q \in 0..n : q * q = n

BsgCheck ==
  /\ ePc = "call" /\ eArg.op = "black_scholes_greeks"
  /\ IF Preconditions(eArg)
     THEN ePc' = "arithmetic" /\ UNCHANGED eResult
     ELSE ePc' = "returned" /\ eResult' = Undefined
  /\ UNCHANGED <<eArg, eAcc, eDivByZero, renderVars, formatVars>>

\* d1 = (ln(S/K) + (r + sigma^2/2) T) / (sigma sqrt T); gamma divides by
\* S sigma sqrt T and theta by 2 sqrt T.  The result keeps the divisors.
BsgArithmetic ==
  /\ ePc = "arithmetic" /\ eArg.op = "black_scholes_greeks"
  /\ LET sqrtT == Sqrt(eArg.time_to_expiry_years)
         d1Divisor == eArg.implied_vol * sqrtT
         gammaDivisor == eArg.spot * eArg.implied_vol * sqrtT
         thetaDivisor == 2 * sqrtT
     IN  /\ eDivByZero' = (eArg.strike = 0 \/ d1Divisor = 0 \/ gammaDivisor = 0
                             \/ thetaDivisor = 0)
         /\ eResult' = [t |-> "GreeksResult", side |-> eArg.option_side,
                        d1Divisor |-> d1Divisor, gammaDivisor |-> gammaDivisor,
                        thetaDivisor |-> thetaDivisor]
  /\ ePc' = "returned"
  /\ UNCHANGED <<eArg, eAcc, renderVars, formatVars>>

EngineNext ==
  \/ SmaEnter
  \/ SmaStep
  \/ SmaReturn
  \/ PcrEnter
  \/ PcrAccumulate
  \/ PcrDivide
  \/ BsgCheck
  \/ BsgArithmetic

EngineSpecInit == EngineInit /\ RenderInit /\ FormatIdle
EngineSpec == EngineSpecInit /\ [][EngineNext]_vars

-----------------------------------------------------------------------------
(* Properties of the engine operations (EngineSpec).                       *)

Returned(op) == ePc = "returned" /\ eArg.op = op

RECURSIVE SumOver(_, _)
SumOver(chain_set, side) ==
  IF chain_set = <<>> THEN 0
  ELSE Sum(IF side = "calls" THEN Head(chain_set).calls ELSE Head(chain_set).puts)
         + SumOver(Tail(chain_set), side)

C3_GreeksPreconditions ==
  eArg.op = "black_scholes_greeks" =>
    LET violated == \/ eArg.spot <= 0 \/ eArg.strike <= 0
                    \/ eArg.time_to_expiry_years <= 0 \/ eArg.implied_vol <= 0
    IN  /\ ~eDivByZero
        /\ violated => ePc # "arithmetic"
        /\ ePc = "returned" => (violated <=> eResult = Undefined)
        /\ ePc = "returned" /\ ~violated =>
             /\ eResult.t = "GreeksResult"
             /\ eResult.d1Divisor # 0 /\ eResult.gammaDivisor # 0 /\ eResult.thetaDivisor # 0

C3_Witness ==
  /\ Returned("black_scholes_greeks")
  /\ eArg.spot > 0 /\ eArg.strike > 0 /\ eArg.implied_vol > 0
  /\ eArg.time_to_expiry_years = 0
  /\ eResult = Undefined

\* C4: every position of simple_moving_average(series, window) with fewer
\* than window bars up to and including it is "no value" (so every position
\* when the series is shorter than the window), never zero or another
\* number; every other position is the mean of its trailing window.
C4_MovingAverage ==
  eArg.op = "simple_moving_average" /\ ePc \in {"rolling", "returned"} =>
    /\ ePc = "returned" => Len(eResult) = Len(eArg.series)
    /\ \A i \in DOMAIN eResult :
         IF i < eArg.window
         THEN eResult[i] = NoValue
         ELSE eResult[i] = Value(Sum(SubSeq(eArg.series, i - eArg.window + 1, i)), eArg.window)
    /\ Len(eArg.series) < eArg.window => \A i \in DOMAIN eResult : eResult[i] = NoValue

C4_Witness ==
  /\ Returned("simple_moving_average")
  /\ Len(eArg.series) = 2 /\ eArg.window = 3
  /\ eResult = <<NoValue, NoValue>>

=============================================================================
